---- MODULE Spec2Model ----
(***************************************************************************)
(* Model of the concurrent reachability prober of iptv_searcher.py:        *)
(*   test_iptv_links        (primary async path, thread-pool fallback)     *)
(*   async_test_iptv_links / async_test_single_link                        *)
(*   test_single_link                                                      *)
(* A channel is a Python dict; iptv_list holds references to the dicts, so *)
(* the dicts live in a heap (channel) and the list holds their ids.        *)
(***************************************************************************)
EXTENDS Integers, Sequences, FiniteSets, TLC

VARIABLES
  pc,               \* position of test_iptv_links
  max_workers,      \* the max_workers / max_concurrent argument
  input,            \* the caller's view of the list before the call
  channel,          \* heap: dict id -> the channel dict
  iptv_list,        \* the list: sequence of dict ids
  task,             \* per submitted probe: its position
  taskArg,          \* per submitted probe: the dict id it was given
  doneq,            \* finished probes not yet taken by as_completed
  conns,            \* connections the TCPConnector has handed out
  completed,        \* counter of the as_completed loop
  available_count,  \* counter of the as_completed loop
  elapsed,          \* time.time() - start_time, in clock readings
  progress,         \* progress lines printed: <<completed, available_count>>
  stats,            \* final statistics printed, or NoStats
  probes,           \* per entry: probe invocations in this call
  calls,            \* per entry: session.head / requests.get invocations
  fallbacks,        \* times the thread-pool fallback was started
  outcome,          \* per submitted probe: what its request ended with
  first             \* the statuses an earlier call left, or NoFirst

vars == <<pc, max_workers, input, first, outcome, channel, iptv_list, task, taskArg,
                 doneq, conns,
          completed, available_count, elapsed, progress, stats, probes, calls,
          fallbacks>>

-----------------------------------------------------------------------------
(* Bounds of the model *)

NumEntries == 3     \* length of the list handed to test_iptv_links
MaxWorkers == 2     \* largest max_workers argument tried
TicksPerSecond == 2 \* clock readings per second: a reading of 0 is no
                    \* measurable time, readings below TimeoutTicks are
                    \* measurable times shorter than the timeout
MaxPerHost == 1     \* limit_per_host=100, scaled down to the lists tried:
                    \* connections the connector allows to one host

(* Program constants *)

timeout == 1            \* timeout=1 (seconds)
ReportEvery == 200      \* completed % 200 == 0
ErrorCodeFrom == 400    \* response.status < 400

-----------------------------------------------------------------------------
(* Status strings *)

Untested         == "Untested"          \* "未测试"
Available        == "Available"         \* "可用"
Unavailable      == "Unavailable"       \* "不可用"
Timeout          == "Timeout"           \* "超时"
ConnectionFailed == "ConnectionFailed"  \* "连接失败"
Error            == "Error"             \* "错误"
NeedsManualCheck == "NeedsManualCheck"  \* "需手动测试"
UnknownProtocol  == "UnknownProtocol"   \* "未知协议"

TerminalStatuses ==
  {Available, Unavailable, Timeout, ConnectionFailed, Error, NeedsManualCheck}

-----------------------------------------------------------------------------
(* Links are strings: sequences of characters *)

HttpPrefix  == <<"h","t","t","p",":","/","/">>
HttpsPrefix == <<"h","t","t","p","s",":","/","/">>

Max(a, b) == IF a >= b THEN a ELSE b

\* the timeout in clock readings, and the largest reading the model follows
TimeoutTicks == timeout * TicksPerSecond
MaxElapsed == TimeoutTicks

\* str.startswith(prefix)
StartsWith(s, p) == Len(s) >= Len(p) /\ SubSeq(s, 1, Len(p)) = p

\* channel['link'].startswith(('http://', 'https://'))
IsHttpLink(link) == StartsWith(link, HttpPrefix) \/ StartsWith(link, HttpsPrefix)

\* channel['link'] raises (KeyError) when the dict has no 'link'
HasLink(ch) == "link" \in DOMAIN ch

\* The scheme of a URI: the characters before the first ':', compared
\* case-insensitively (RFC 3986, 3.1); only the letters used here are folded.
Lower(c) ==
  CASE c = "H" -> "h" [] c = "T" -> "t" [] c = "P" -> "p" [] c = "S" -> "s"
    [] OTHER -> c

RECURSIVE SchemeOf(_)
SchemeOf(link) ==
  IF link = <<>> \/ Head(link) = ":" THEN <<>>
  ELSE <<Lower(Head(link))>> \o SchemeOf(Tail(link))

SchemeIsHttp(link) == SchemeOf(link) \in {<<"h","t","t","p">>, <<"h","t","t","p","s">>}

-----------------------------------------------------------------------------
(* The entries tried, and how the endpoint behind each link behaves *)

Catalogue ==
  << [name |-> "A", link |-> HttpPrefix  \o <<"a">>, status |-> Untested],
     [name |-> "B", link |-> HttpsPrefix \o <<"b">>, status |-> Untested],
     [name |-> "C", link |-> HttpPrefix  \o <<"c">>, status |-> Untested],
     [name |-> "D", link |-> HttpsPrefix \o <<"d">>, status |-> Untested],
     [name |-> "E", link |-> HttpPrefix  \o <<"e">>, status |-> Untested],
     [name |-> "F", link |-> <<"r","t","m","p",":","/","/","f">>, status |-> Untested],
     [name |-> "G", link |-> <<"H","T","T","P",":","/","/","g">>, status |-> Untested],
     [name |-> "H", status |-> Untested],
     [name |-> "I", link |-> HttpPrefix  \o <<"a","/","i">>, status |-> Untested],
     [name |-> "J", link |-> HttpsPrefix \o <<"j">>, status |-> Untested] >>

\* What a request to the link meets: a response with a code, no answer within
\* the timeout, a refused connection, a malformed response, or a host that
\* accepts no connection within the timeout.
Endpoint(link) ==
  CASE link = HttpPrefix  \o <<"a">> -> [kind |-> "response", code |-> 200]
    [] link = HttpsPrefix \o <<"b">> -> [kind |-> "response", code |-> 404]
    [] link = HttpPrefix  \o <<"c">> -> [kind |-> "silent",   code |-> 0]
    [] link = HttpsPrefix \o <<"d">> -> [kind |-> "refused",  code |-> 0]
    [] link = HttpPrefix  \o <<"e">> -> [kind |-> "garbled",  code |-> 0]
    [] link = HttpPrefix  \o <<"a","/","i">> -> [kind |-> "response", code |-> 301]
    [] link = HttpsPrefix \o <<"j">> -> [kind |-> "unreachable", code |-> 0]
    [] OTHER                         -> [kind |-> "response", code |-> 200]

Idx == DOMAIN channel

\* Strictly increasing selections of NumEntries catalogue entries
Selections(n) ==
  { s \in [1..n -> 1..Len(Catalogue)] : \A i, j \in 1..n : i < j => s[i] < s[j] }

\* a test that takes no list for empty
NeverEmpty(list) == FALSE

\* not iptv_list
IsEmpty(list) == Len(list) = 0

\* The exception classes a failed request is an instance of
Raises(kind) ==
  CASE kind = "silent"      -> {"Timeout"}
    [] kind = "refused"     -> {"ConnectionError"}
    [] kind = "unreachable" -> {"Timeout", "ConnectionError"}
    [] OTHER                -> {}

\* what session.head / requests.get ends with at an endpoint
NoOutcome == [kind |-> "none", code |-> 0, classes |-> {}]

RequestOutcome(ep) ==
  IF ep.kind = "response"
  THEN [kind |-> "response", code |-> ep.code, classes |-> {}]
  ELSE [kind |-> "exception", code |-> 0, classes |-> Raises(ep.kind)]

\* the connector's key of a link: https or not, and the host
RECURSIVE UpToSlash(_)
UpToSlash(s) ==
  IF s = <<>> \/ Head(s) = "/" THEN <<>> ELSE <<Head(s)>> \o UpToSlash(Tail(s))

HostKey(link) ==
  IF StartsWith(link, HttpsPrefix)
  THEN <<"https", UpToSlash(SubSeq(link, Len(HttpsPrefix) + 1, Len(link)))>>
  ELSE <<"http", UpToSlash(SubSeq(link, Len(HttpPrefix) + 1, Len(link)))>>

NoFirst == <<"none">>

NoStats == [total |-> 0, available |-> 0, unavailable |-> 0, manual |-> 0,
            unknown |-> 0, path |-> "none"]

-----------------------------------------------------------------------------
(* Pure parts of the probes and of the statistics *)

\* except clauses tried in the other order: the connection error first
ConnectionErrorFirst(out) ==
  IF out.kind = "response"
  THEN IF out.code < ErrorCodeFrom THEN Available ELSE Unavailable
  ELSE IF "ConnectionError" \in out.classes THEN ConnectionFailed
  ELSE IF "Timeout" \in out.classes THEN Timeout
  ELSE Error

\* async_test_single_link: the try block around session.head; the except
\* clauses are tried in order
AsyncStatus(out) ==
  IF out.kind = "response"
  THEN IF out.code < ErrorCodeFrom THEN Available ELSE Unavailable
  ELSE IF "Timeout" \in out.classes THEN Timeout                  \* asyncio.TimeoutError
  ELSE IF "ConnectionError" \in out.classes THEN ConnectionFailed \* aiohttp.ClientConnectionError
  ELSE Error                                                      \* Exception

\* test_single_link: the try block around requests.get; the except clauses
\* are tried in order
SyncStatus(out) ==
  IF out.kind = "response"
  THEN IF out.code < ErrorCodeFrom THEN Available ELSE Unavailable
  ELSE IF "Timeout" \in out.classes THEN Timeout                  \* requests.exceptions.Timeout
  ELSE IF "ConnectionError" \in out.classes THEN ConnectionFailed \* requests.exceptions.ConnectionError
  ELSE Error                                                      \* Exception

\* one status shared by all the dicts
SetStatusOfAll(heap, o, s) == [x \in DOMAIN heap |-> [heap[x] EXCEPT !.status = s]]

\* channel['status'] = s
SetStatus(heap, o, s) == [heap EXCEPT ![o] = [@ EXCEPT !.status = s]]

\* a write-back by completion position instead of by the probe's index
WriteBackByPosition(list, idx, o) == [list EXCEPT ![completed + 1] = o]

\* iptv_list[idx] = channel
WriteBack(list, idx, o) == [list EXCEPT ![idx] = o]

\* an except branch that forgets to count the probe
CompletedNotCounted(c) == c

\* the except branch of the as_completed loop: completed += 1
CompletedAfterError(c) == c + 1

\* a loop that counts every probe that was given a status
CountsAnyStatus(status) == status # Untested

\* if channel['status'] == "可用": available_count += 1
CountsAvailable(status) == status = Available

\* sum(1 for c in iptv_list if c.get('status') in statuses)
CountStatus(list, heap, statuses) ==
  Cardinality({ i \in 1..Len(list) : heap[list[i]].status \in statuses })

\* the statistics block after the as_completed loop
FinalStats(list, heap, avail, path) ==
  [ total       |-> Len(list),
    available   |-> avail,
    unavailable |-> CountStatus(list, heap, {Unavailable, Timeout, ConnectionFailed, Error}),
    manual      |-> CountStatus(list, heap, {NeedsManualCheck}),
    unknown     |-> CountStatus(list, heap, {UnknownProtocol}),
    path        |-> path ]

\* if completed % 200 == 0 or completed == len(iptv_list): print(...)
Report(log, c, a, n) ==
  IF c % ReportEvery = 0 \/ c = n THEN Append(log, <<c, a>>) ELSE log

\* the lowest submitted probe still at position p (tasks start in submission order)
FirstAt(p) == CHOOSE t \in Idx : task[t] = p /\ \A u \in Idx : task[u] = p => t <= u

AllTaken == \A t \in Idx : task[t] = "taken"

-----------------------------------------------------------------------------
Init ==
  /\ pc = "start"
  /\ max_workers \in 1..MaxWorkers
  /\ \E n \in 0..NumEntries : \E s \in Selections(n) :
       /\ channel = [o \in 1..n |-> Catalogue[s[o]]]
       /\ iptv_list = IF n = 0 THEN <<>> ELSE [i \in 1..n |-> i]
  /\ input = [i \in Idx |-> channel[i]]
  /\ task = [t \in Idx |-> "none"]
  /\ taskArg = [t \in Idx |-> 0]
  /\ doneq = <<>>
  /\ conns = 0
  /\ completed = 0
  /\ available_count = 0
  /\ elapsed = 0
  /\ progress = <<>>
  /\ stats = NoStats
  /\ probes = [i \in Idx |-> 0]
  /\ calls = [i \in Idx |-> 0]
  /\ fallbacks = 0
  /\ outcome = [t \in Idx |-> NoOutcome]
  /\ first = NoFirst

\* session.head of every task has been called: the first pass of the event loop
AllStarted == \A t \in Idx : task[t] # "created"

\* the endpoint answers (response or error) within the timeout once contacted
Answers(o) == Endpoint(channel[o].link).kind \notin {"silent", "unreachable"}

\* the connector has a connection for the request of probe t: fewer than
\* limit in use, and fewer than limit_per_host to the link's host
CanConnect(t) ==
  /\ conns < max_workers
  /\ Cardinality({u \in Idx : /\ task[u] \in {"connected", "late"}
                               /\ HostKey(channel[taskArg[u]].link)
                                    = HostKey(channel[taskArg[t]].link)}) < MaxPerHost

\* The clock advances between two readings of time.time().  On the async path
\* every request's timeout is started in the first pass of the event loop, so
\* a reading of TimeoutTicks is the deadline of all of them: before it, a
\* request contacted at reading 0 whose endpoint answers has answered, and a
\* free connection has been handed to a waiting request.
Tick ==
  /\ pc \in {"async", "thread"}
  /\ elapsed < MaxElapsed
  /\ pc = "async" =>
       /\ AllStarted
       /\ ~\E t \in Idx : task[t] = "waiting" /\ CanConnect(t)
       /\ elapsed + 1 >= TimeoutTicks =>
            \A t \in Idx : task[t] = "connected" => ~Answers(taskArg[t])
  /\ elapsed' = elapsed + 1
  /\ UNCHANGED <<pc, max_workers, input, first, outcome, channel, iptv_list, task, taskArg,
                 doneq, conns,
                 completed, available_count, progress, stats, probes, calls, fallbacks>>

(* ---- primary path: async_test_iptv_links ---- *)

\* asyncio.get_event_loop() / run_until_complete raises before the coroutine runs
GetEventLoopFail ==
  /\ pc = "start"
  /\ pc' = "fallback"
  /\ UNCHANGED <<max_workers, input, first, outcome, channel, iptv_list, task, taskArg,
                 doneq, conns,
                 completed, available_count, elapsed, progress, stats, probes, calls,
                 fallbacks>>

\* if not iptv_list: return iptv_list
AsyncEmpty ==
  /\ pc = "start"
  /\ IsEmpty(iptv_list)
  /\ pc' = "returned"
  /\ UNCHANGED <<max_workers, input, first, outcome, channel, iptv_list, task, taskArg,
                 doneq, conns,
                 completed, available_count, elapsed, progress, stats, probes, calls,
                 fallbacks>>

\* connector, counters, start_time, one task per entry
AsyncSetup ==
  /\ pc = "start"
  /\ ~IsEmpty(iptv_list)
  /\ pc' = "async"
  /\ outcome' = [t \in Idx |-> NoOutcome]
  /\ conns' = 0
  /\ completed' = 0
  /\ available_count' = 0
  /\ elapsed' = 0
  /\ task' = [t \in Idx |-> "created"]
  /\ taskArg' = [t \in Idx |-> iptv_list[t]]
  /\ doneq' = <<>>
  /\ UNCHANGED <<max_workers, input, first, channel, iptv_list, progress, stats, probes,
                 calls, fallbacks>>

\* async_test_single_link up to its first suspension
AsyncStart(t) ==
  /\ pc = "async"
  /\ task[t] = "created"
  /\ t = FirstAt("created")
  /\ probes' = [probes EXCEPT ![t] = @ + 1]
  /\ LET o == taskArg[t] IN
       IF ~HasLink(channel[o])
       THEN /\ task' = [task EXCEPT ![t] = "failed"]
            /\ doneq' = Append(doneq, t)
            /\ UNCHANGED <<channel, calls, conns>>
       ELSE IF ~IsHttpLink(channel[o].link)
       THEN /\ channel' = SetStatus(channel, o, NeedsManualCheck)
            /\ task' = [task EXCEPT ![t] = "done"]
            /\ doneq' = Append(doneq, t)
            /\ UNCHANGED <<calls, conns>>
       ELSE /\ calls' = [calls EXCEPT ![t] = @ + 1]
            /\ IF CanConnect(t)
               THEN conns' = conns + 1 /\ task' = [task EXCEPT ![t] = "connected"]
               ELSE conns' = conns /\ task' = [task EXCEPT ![t] = "waiting"]
            /\ UNCHANGED <<channel, doneq>>
  /\ UNCHANGED <<pc, max_workers, input, first, outcome, iptv_list, taskArg, completed,
                 available_count, elapsed, progress, stats, fallbacks>>

\* a released connection is handed to a waiting request; "late" when time has
\* passed since the request's timeout was started
AsyncAcquire(t) ==
  /\ pc = "async"
  /\ AllStarted
  /\ task[t] = "waiting"
  /\ CanConnect(t)
  /\ conns' = conns + 1
  /\ task' = [task EXCEPT ![t] = IF elapsed = 0 THEN "connected" ELSE "late"]
  /\ UNCHANGED <<pc, max_workers, input, first, outcome, channel, iptv_list, taskArg, doneq, completed,
                 available_count, elapsed, progress, stats, probes, calls, fallbacks>>

\* what session.head raises at the deadline: asyncio.TimeoutError, or the
\* timeout of a connection attempt to a host that did not accept it
TotalTimeout(t) ==
  [kind |-> "exception", code |-> 0,
   classes |-> IF task[t] # "waiting" /\ ~Answers(taskArg[t])
               THEN Raises(Endpoint(channel[taskArg[t]].link).kind)
               ELSE {"Timeout"}]

\* the request's total timeout runs out (asyncio.TimeoutError), whether it
\* waits for a connection or for the answer; its connection is released
AsyncTimeout(t) ==
  /\ pc = "async"
  /\ AllStarted
  /\ task[t] \in {"waiting", "connected", "late"}
  /\ elapsed >= TimeoutTicks
  /\ outcome' = [outcome EXCEPT ![t] = TotalTimeout(t)]
  /\ channel' = SetStatus(channel, taskArg[t], AsyncStatus(TotalTimeout(t)))
  /\ conns' = IF task[t] = "waiting" THEN conns ELSE conns - 1
  /\ task' = [task EXCEPT ![t] = "done"]
  /\ doneq' = Append(doneq, t)
  /\ UNCHANGED <<pc, max_workers, input, first, iptv_list, taskArg, completed,
                 available_count, elapsed, progress, stats, probes, calls, fallbacks>>

\* the endpoint answers before the timeout: response or exception; the
\* connection is released
AsyncRespond(t) ==
  /\ pc = "async"
  /\ AllStarted
  /\ task[t] \in {"connected", "late"}
  /\ Answers(taskArg[t])
  /\ elapsed < TimeoutTicks
  /\ LET out == RequestOutcome(Endpoint(channel[taskArg[t]].link)) IN
       /\ outcome' = [outcome EXCEPT ![t] = out]
       /\ channel' = SetStatus(channel, taskArg[t], AsyncStatus(out))
  /\ conns' = conns - 1
  /\ task' = [task EXCEPT ![t] = "done"]
  /\ doneq' = Append(doneq, t)
  /\ UNCHANGED <<pc, max_workers, input, first, iptv_list, taskArg, completed,
                 available_count, elapsed, progress, stats, probes, calls, fallbacks>>

\* one iteration of the as_completed loop over finished probe t
Consume(t) ==
  IF task[t] = "done"
  THEN LET o == taskArg[t]
           c == completed + 1
           a == IF CountsAvailable(channel[o].status)
                THEN available_count + 1 ELSE available_count IN
         /\ iptv_list' = WriteBack(iptv_list, t, o)
         /\ completed' = c
         /\ available_count' = a
         /\ progress' = Report(progress, c, a, Len(iptv_list))
  ELSE /\ completed' = CompletedAfterError(completed)
       /\ UNCHANGED <<iptv_list, available_count, progress>>

\* asyncio.as_completed yields the probes in the order they finished
AsyncConsume ==
  /\ pc = "async"
  /\ AllStarted
  /\ doneq # <<>>
  /\ Consume(Head(doneq))
  /\ task' = [task EXCEPT ![Head(doneq)] = "taken"]
  /\ doneq' = Tail(doneq)
  /\ UNCHANGED <<pc, max_workers, input, first, outcome, channel, taskArg, conns, elapsed, stats, probes,
                 calls, fallbacks>>

\* statistics; total/elapsed_time raises ZeroDivisionError, caught in test_iptv_links
AsyncFinish ==
  /\ pc = "async"
  /\ AllTaken
  /\ stats' = FinalStats(iptv_list, channel, available_count, "async")
  /\ pc' = IF elapsed = 0 THEN "fallback" ELSE "returned"
  /\ UNCHANGED <<max_workers, input, first, outcome, channel, iptv_list, task, taskArg,
                 doneq, conns,
                 completed, available_count, elapsed, progress, probes, calls,
                 fallbacks>>

(* ---- fallback path: the except branch of test_iptv_links ---- *)

\* if not iptv_list: return iptv_list
FallbackEmpty ==
  /\ pc = "fallback"
  /\ IsEmpty(iptv_list)
  /\ pc' = "returned"
  /\ UNCHANGED <<max_workers, input, first, outcome, channel, iptv_list, task, taskArg,
                 doneq, conns,
                 completed, available_count, elapsed, progress, stats, probes, calls,
                 fallbacks>>

\* start_time, ThreadPoolExecutor, one submitted future per entry, counters
ThreadSetup ==
  /\ pc = "fallback"
  /\ ~IsEmpty(iptv_list)
  /\ pc' = "thread"
  /\ outcome' = [t \in Idx |-> NoOutcome]
  /\ fallbacks' = fallbacks + 1
  /\ elapsed' = 0
  /\ completed' = 0
  /\ available_count' = 0
  /\ task' = [t \in Idx |-> "queued"]
  /\ taskArg' = [t \in Idx |-> iptv_list[t]]
  /\ doneq' = <<>>
  /\ UNCHANGED <<max_workers, input, first, channel, iptv_list, conns, progress, stats,
                 probes, calls>>

\* a free worker takes the next queued probe: test_single_link up to requests.get
ThreadStart(t) ==
  /\ pc = "thread"
  /\ task[t] = "queued"
  /\ t = FirstAt("queued")
  /\ Cardinality({u \in Idx : task[u] = "running"}) < max_workers
  /\ probes' = [probes EXCEPT ![t] = @ + 1]
  /\ LET o == taskArg[t] IN
       IF ~HasLink(channel[o])
       THEN /\ task' = [task EXCEPT ![t] = "failed"]
            /\ doneq' = Append(doneq, t)
            /\ UNCHANGED <<channel, calls>>
       ELSE IF ~IsHttpLink(channel[o].link)
       THEN /\ channel' = SetStatus(channel, o, NeedsManualCheck)
            /\ task' = [task EXCEPT ![t] = "done"]
            /\ doneq' = Append(doneq, t)
            /\ UNCHANGED calls
       ELSE /\ calls' = [calls EXCEPT ![t] = @ + 1]
            /\ task' = [task EXCEPT ![t] = "running"]
            /\ UNCHANGED <<channel, doneq>>
  /\ UNCHANGED <<pc, max_workers, input, first, outcome, iptv_list, taskArg, conns, completed,
                 available_count, elapsed, progress, stats, fallbacks>>

\* requests.get ends: response, timeout or exception; the worker is free again
ThreadRespond(t) ==
  /\ pc = "thread"
  /\ task[t] = "running"
  /\ LET o   == taskArg[t]
         out == RequestOutcome(Endpoint(channel[o].link)) IN
       /\ outcome' = [outcome EXCEPT ![t] = out]
       /\ channel' = SetStatus(channel, o, SyncStatus(out))
       /\ elapsed' = IF "Timeout" \in out.classes
                     THEN Max(elapsed, TimeoutTicks) ELSE elapsed
  /\ task' = [task EXCEPT ![t] = "done"]
  /\ doneq' = Append(doneq, t)
  /\ UNCHANGED <<pc, max_workers, input, first, iptv_list, taskArg, conns, completed,
                 available_count, progress, stats, probes, calls, fallbacks>>

\* concurrent.futures.as_completed yields any finished future
ThreadConsume(k) ==
  /\ pc = "thread"
  /\ k \in 1..Len(doneq)
  /\ Consume(doneq[k])
  /\ task' = [task EXCEPT ![doneq[k]] = "taken"]
  /\ doneq' = SubSeq(doneq, 1, k - 1) \o SubSeq(doneq, k + 1, Len(doneq))
  /\ UNCHANGED <<pc, max_workers, input, first, outcome, channel, taskArg, conns, elapsed, stats, probes,
                 calls, fallbacks>>

\* statistics; total/elapsed_time raises ZeroDivisionError to the caller
ThreadFinish ==
  /\ pc = "thread"
  /\ AllTaken
  /\ stats' = FinalStats(iptv_list, channel, available_count, "thread")
  /\ pc' = IF elapsed = 0 THEN "raised" ELSE "returned"
  /\ UNCHANGED <<max_workers, input, first, outcome, channel, iptv_list, task, taskArg,
                 doneq, conns,
                 completed, available_count, elapsed, progress, probes, calls,
                 fallbacks>>

Next ==
  \/ Tick
  \/ GetEventLoopFail
  \/ AsyncEmpty
  \/ AsyncSetup
  \/ \E t \in Idx : AsyncStart(t)
  \/ \E t \in Idx : AsyncAcquire(t)
  \/ \E t \in Idx : AsyncTimeout(t)
  \/ \E t \in Idx : AsyncRespond(t)
  \/ AsyncConsume
  \/ AsyncFinish
  \/ FallbackEmpty
  \/ ThreadSetup
  \/ \E t \in Idx : ThreadStart(t)
  \/ \E t \in Idx : ThreadRespond(t)
  \/ \E k \in Idx : ThreadConsume(k)
  \/ ThreadFinish

Spec == Init /\ [][Next]_vars

\* The event loop runs every ready task, every request ends by its timeout at
\* the latest, and the pool's workers keep taking queued probes.
FairSpec == Spec /\ WF_vars(Next)

\* main, choice "1": test_iptv_links is called again on the list the first
\* call returned; the per-call records start afresh
Rerun ==
  /\ pc = "returned"
  /\ first = NoFirst
  /\ first' = [i \in DOMAIN iptv_list |-> channel[iptv_list[i]].status]
  /\ input' = [i \in DOMAIN iptv_list |-> channel[iptv_list[i]]]
  /\ pc' = "start"
  /\ progress' = <<>>
  /\ stats' = NoStats
  /\ probes' = [i \in Idx |-> 0]
  /\ calls' = [i \in Idx |-> 0]
  /\ fallbacks' = 0
  /\ UNCHANGED <<max_workers, outcome, channel, iptv_list, task, taskArg, doneq, conns,
                 completed, available_count, elapsed>>

\* one call of test_iptv_links followed by at most one more on the same list
SpecRerun == Init /\ [][Next \/ Rerun]_vars

-----------------------------------------------------------------------------
(* Shorthands of the claims *)

Entry(i) == channel[iptv_list[i]]

Returned == pc = "returned"

\* a pass's as_completed loop has yielded every probe
LoopEnded == pc \in {"async", "thread"} /\ AllTaken

\* probes started and not yet finished
InFlight ==
  Cardinality({t \in Idx : task[t] \in {"waiting", "connected", "late", "running"}})

\* the status test_single_link leaves on a dict, for its endpoint's behaviour
TestSingleLinkStatus(ch) ==
  IF ~HasLink(ch) THEN ch.status
  ELSE IF ~IsHttpLink(ch.link) THEN NeedsManualCheck
  ELSE SyncStatus(RequestOutcome(Endpoint(ch.link)))

-----------------------------------------------------------------------------
C2_InFlightBounded == InFlight <= max_workers

\* C3: in one call each entry is probed exactly once, never twice, also when
\* the async path raises and the fallback takes over.
C3_ProbedOnce ==
  /\ \A i \in Idx : probes[i] <= 1
  /\ pc \in {"returned", "raised"} => \A i \in Idx : probes[i] = 1

\* C4: for every completion order the list keeps its length and entry i keeps
\* the link and the name of input entry i: write-back is by submitted index.
C4_OrderPreserved ==
  /\ Len(iptv_list) = Len(input)
  /\ \A i \in Idx :
       /\ Entry(i).name = input[i].name
       /\ HasLink(Entry(i)) = HasLink(input[i])
       /\ HasLink(input[i]) => Entry(i).link = input[i].link

\* C4 witness: probe 2 has been written back while probe 1, submitted before
\* it, is still in flight.
C4_Witness ==
  /\ {1, 2} \subseteq Idx
  /\ task[2] = "taken"
  /\ task[1] \in {"waiting", "connected", "late", "running"}
  /\ completed >= 1

C6_FailureIsLocal ==
  /\ [](conns = Cardinality({t \in Idx : task[t] \in {"connected", "late"}}))
  /\ [][\A t \in Idx :
          (task[t] \notin {"done", "failed"} /\ task'[t] \in {"done", "failed"}) =>
            \A u \in Idx \ {t} :
              task'[u] = task[u] /\ channel'[taskArg[u]] = channel[taskArg[u]]]_vars
  /\ (pc \in {"async", "thread"}) ~> (LoopEnded /\ completed = Len(iptv_list))

\* C6 witness: a pass has processed every entry although one probe raised and
\* another ended in Timeout.
C6_Witness ==
  /\ LoopEnded
  /\ completed = NumEntries
  /\ \E i \in Idx : ~HasLink(Entry(i))
  /\ \E i \in Idx : Entry(i).status = Timeout
  /\ \E i \in Idx : Entry(i).status = Available

\* C7: test_iptv_links never raises to its caller for a non-empty batch,
\* whatever the per-entry outcomes.
C7_NeverRaises == pc # "raised"

\* C8: the async path and the thread-pool path leave every entry with the same
\* status: when a pass ends on either path each entry has the status
\* test_single_link gives it for the behaviour of its endpoint.
C8_PathsAgree ==
  LoopEnded => \A i \in Idx : Entry(i).status = TestSingleLinkStatus(input[i])

\* C9: the fallback is started at most once, and only before the primary path
\* has started any probe or changed any entry's status.
C9_FallbackOnlyAtInit ==
  /\ fallbacks <= 1
  /\ pc = "fallback" =>
       \A i \in Idx : probes[i] = 0 /\ Entry(i).status = input[i].status

\* C10: a finished probe of a link whose scheme is not HTTP or HTTPS left
\* NeedsManualCheck and issued no request; a finished probe of an HTTP or
\* HTTPS link did not leave NeedsManualCheck and issued one request per probe.
C10_SchemeDecides ==
  \A t \in Idx :
    (task[t] \in {"done", "taken"} /\ HasLink(Entry(t))) =>
      IF SchemeIsHttp(Entry(t).link)
      THEN Entry(t).status # NeedsManualCheck /\ calls[t] = probes[t]
      ELSE Entry(t).status = NeedsManualCheck /\ calls[t] = 0

\* the probes of this pass whose request has ended
Requested == {t \in Idx : task[t] \in {"done", "taken"} /\ outcome[t].kind # "none"}

\* C11: the status of a probe whose request ended is decided by the request's
\* outcome alone: a response below 400 (3xx included) gives Available, one of
\* 400 or more Unavailable, a timeout Timeout, a connection failure
\* ConnectionFailed, any other exception Error; an outcome that is a timeout
\* and a connection failure at once gives Timeout, on both paths.
C11_OutcomeDecidesStatus ==
  \A t \in Requested :
    LET out == outcome[t]
        st  == channel[taskArg[t]].status IN
      /\ (out.kind = "response" /\ out.code < 400) => st = Available
      /\ (out.kind = "response" /\ out.code >= 400) => st = Unavailable
      /\ (out.kind = "exception" /\ "Timeout" \in out.classes) => st = Timeout
      /\ (out.kind = "exception" /\ out.classes = {"ConnectionError"}) =>
           st = ConnectionFailed
      /\ (out.kind = "exception" /\ out.classes = {}) => st = Error
      /\ st \in {Available, Unavailable, Timeout, ConnectionFailed, Error}

\* C11 witness: a pass has yielded one probe whose request ended in a connect
\* timeout and one whose request was answered with a redirect.
C11_Witness ==
  /\ \E t \in Requested :
       /\ task[t] = "taken"
       /\ outcome[t].classes = {"Timeout", "ConnectionError"}
       /\ channel[taskArg[t]].status = Timeout
  /\ \E t \in Requested :
       /\ task[t] = "taken"
       /\ outcome[t].kind = "response" /\ outcome[t].code \in 300..399
       /\ channel[taskArg[t]].status = Available

\* requests of this pass that hold a connection to the host of key h
ToHost(h) ==
  {t \in Idx : /\ task[t] \in {"connected", "late", "running"}
               /\ HostKey(channel[taskArg[t]].link) = h}

\* C12: at every instant at most limit_per_host requests hold a connection to
\* any one host, on the async path and on the thread-pool path.
C12_PerHostBounded ==
  \A t \in Idx :
    task[t] \in {"connected", "late", "running"} =>
      Cardinality(ToHost(HostKey(channel[taskArg[t]].link))) <= MaxPerHost

\* the second call on the same list has ended
SecondEnded == first # NoFirst /\ pc \in {"returned", "raised"}

\* C13: a second call of test_iptv_links on the list the first call returned,
\* with every endpoint behaving as before, leaves every entry with the status
\* the first call left, and so the same number of entries of each status.
C13_SecondRunSame ==
  SecondEnded =>
    /\ \A i \in DOMAIN iptv_list : Entry(i).status = first[i]
    /\ \A s \in TerminalStatuses \cup {Untested} :
         CountStatus(iptv_list, channel, {s})
           = Cardinality({i \in DOMAIN first : first[i] = s})

\* C14: for an empty list test_iptv_links starts no pass on either path (no
\* probe, no statistics and so no division by the total), never raises, and
\* returns the list as it is.
C14_EmptyListReturns ==
  Len(input) = 0 =>
    /\ pc \in {"start", "fallback", "returned"}
    /\ stats = NoStats /\ progress = <<>>
    /\ fallbacks = 0 /\ completed = 0 /\ elapsed = 0
    /\ iptv_list = <<>>

\* C14 witness: the call on an empty list has returned.
C14_Witness == Len(input) = 0 /\ Returned /\ iptv_list = <<>>

C16_ProbeChangesOwnStatus ==
  [][\A i \in DOMAIN iptv_list :
       /\ Entry(i)'.name = Entry(i).name
       /\ HasLink(Entry(i)') = HasLink(Entry(i))
       /\ HasLink(Entry(i)) => Entry(i)'.link = Entry(i).link
       /\ Entry(i)'.status # Entry(i).status =>
            /\ task[i] \notin {"done", "taken"} /\ task'[i] = "done"
            /\ \A j \in DOMAIN iptv_list \ {i} : Entry(j)' = Entry(j)]_vars

\* C16 witness: a probe has given its entry a status and has been written
\* back while another probe's request is under way, its entry untouched.
C16_Witness ==
  /\ \E t \in Idx : task[t] = "taken" /\ Entry(t).status # input[t].status
  /\ \E u \in Idx :
       task[u] \in {"waiting", "connected", "late", "running"} /\ Entry(u) = input[u]

\* C17: when a pass has ended, an HTTP entry whose endpoint answers with a
\* code below 400 once contacted is Available, and an entry is Timeout only if
\* its own endpoint leaves a request unanswered for the timeout; the other
\* entries of the list and the concurrency limit play no part.
C17_OwnEndpointDecides ==
  LoopEnded =>
    \A i \in Idx :
      (HasLink(input[i]) /\ IsHttpLink(input[i].link)) =>
        LET ep == Endpoint(input[i].link) IN
          /\ (ep.kind = "response" /\ ep.code < 400) => Entry(i).status = Available
          /\ Entry(i).status = Timeout => ep.kind \in {"silent", "unreachable"}

\* C18: whenever the final statistics of a pass have been computed, the
\* elapsed time their throughput total/elapsed_time divides by is not zero,
\* on the async path and on the thread-pool path.
C18_DivisorNonZero ==
  /\ (stats.path = "async" /\ pc \in {"fallback", "returned"}) => elapsed > 0
  /\ (stats.path = "thread" /\ pc \in {"raised", "returned"}) => elapsed > 0

\* C19: in every state of a pass 0 <= available_count <= completed <= N,
\* completed is the number of probes the loop has taken, available_count the
\* number of those whose entry is Available, and when the pass has ended
\* completed = N and the final statistics report as available the number of
\* entries of the list whose status is Available.
C19_CountersConsistent ==
  /\ 0 <= available_count /\ available_count <= completed
  /\ completed <= Len(iptv_list)
  /\ pc \in {"async", "thread"} =>
       /\ completed = Cardinality({t \in Idx : task[t] = "taken"})
       /\ available_count =
            Cardinality({t \in Idx : task[t] = "taken" /\ outcome[t].kind = "response"
                                       /\ outcome[t].code < 400})
  /\ LoopEnded => completed = Len(iptv_list)
  /\ stats.path # "none" =>
       stats.available = CountStatus(iptv_list, channel, {Available})

\* C19 witness: the statistics of a pass have been computed for a list with an
\* available entry, an unavailable one and one whose probe raised.
C19_Witness ==
  /\ stats.path # "none" /\ stats.available >= 1
  /\ completed = Len(iptv_list)
  /\ available_count < completed
  /\ \E i \in Idx : ~HasLink(Entry(i))
  /\ \E i \in Idx : Entry(i).status \in {Unavailable, Timeout, ConnectionFailed, Error}

====
